---- MODULE Spec2Model ----
(***************************************************************************)
(* Dune (src/main.rs): the turn-phase state machine (handle_phase), the    *)
(* action-stack interpreter (handle_actions) and the input system (input), *)
(* run once per tick in the order main() registers them.                   *)
(*                                                                         *)
(* A player entity is identified with its faction (init spawns exactly one *)
(* Player per faction); a card entity is a number.  Time is counted in     *)
(* units of half a second, so that the 1.5 s of every camera motion is 3.  *)
(***************************************************************************)
EXTENDS Integers, Sequences, FiniteSets, TLC

VARIABLES
    pc,             \* the system that runs next in the tick, or "panicked"
    data,           \* Data: the lengths of leaders and treachery_cards
    state,          \* State { phase }: [phase, subphase]
    info,           \* Info: [turn, active_player, play_order]
    resources,      \* Resources: the decks and discard piles
    players,        \* the Player component of each player entity
    storm,          \* Storm: [sector]
    stack,          \* ActionStack(Vec<Action>)
    camera,         \* the Transform of the camera entity
    visible,        \* the Visible.is_visible flag of each faction's shield
    at_start_steps, \* history: Setup:AtStart steps taken so far
    inputs,         \* history: actions pushed by input so far
    popped_last,    \* history: handle_actions last emptied a non-empty stack
    lifo,           \* history of the push/pop exercise of ActionStack
    net             \* a client of the network protocol: Screen, roster, messages

vars == <<pc, data, state, info, resources, players, storm, stack, camera, visible,
          at_start_steps, inputs, popped_last, lifo, net>>

-----------------------------------------------------------------------------
(* Bounds of the model *)

\* frame time (time.delta_seconds) ranges over 1..MaxDt half seconds
MaxDt == 2
\* input pushes at most this many camera motions in a run
MaxInputs == 1
\* Setup:AtStart steps in a run (total_spice grows with each)
MaxAtStartSteps == 6
\* Info.turn ranges over 0..MaxTurn when a phase is entered
MaxTurn == 1
\* size of Data.leaders, one traitor card each
NumLeaders == 24
\* size of Data.treachery_cards
NumTreachery == 7
\* pushes of the ActionStack exercise
MaxPush == 3

(* Program constants *)

\* Action::move_camera(.., 1.5): 1.5 s in half seconds
CameraTime == 3
\* storm.sector %= 18
Sectors == 18
\* (1..7): six storm cards
NumStormCards == 6
\* for _ in 0..4
TraitorRounds == 4
\* reserve_troops: 20 - troops
TotalTroops == 20

-----------------------------------------------------------------------------
(* Plain data *)

factions_in_play ==
    <<"Atreides", "BeneGesserit", "Emperor", "Fremen", "Harkonnen", "SpacingGuild">>

Faction == {factions_in_play[i] : i \in 1..Len(factions_in_play)}

SetupSubPhase ==
    {"ChooseFactions", "Prediction", "AtStart", "DealTraitors", "PickTraitors",
     "DealTreachery"}

StormSubPhase == {"Reveal", "WeatherControl", "FamilyAtomics", "MoveStorm"}

OtherPhase ==
    {"SpiceBlow", "Nexus", "Bidding", "Revival", "Movement", "Battle",
     "Collection", "Control", "EndGame"}

Phase ==
    [phase : {"Setup"}, subphase : SetupSubPhase]
    \cup [phase : {"Storm"}, subphase : StormSubPhase]
    \cup [phase : OtherPhase, subphase : {"None"}]

Setup(sub) == [phase |-> "Setup", subphase |-> sub]

Storm(sub) == [phase |-> "Storm", subphase |-> sub]

\* Faction::initial_values(): (troops, locations, spice)
initial_values(f) ==
    CASE f = "Atreides"     -> [troops |-> 10, locations |-> <<<<"Arrakeen">>>>, spice |-> 10]
      [] f = "BeneGesserit" -> [troops |-> 1, locations |-> <<>>, spice |-> 5]
      [] f = "Emperor"      -> [troops |-> 0, locations |-> <<>>, spice |-> 10]
      [] f = "Fremen"       -> [troops |-> 10,
                                locations |-> <<<<"Sietch Tabr", "False Wall South",
                                                  "False Wall West">>>>,
                                spice |-> 3]
      [] f = "Harkonnen"    -> [troops |-> 10, locations |-> <<<<"Carthag">>>>, spice |-> 10]
      [] f = "SpacingGuild" -> [troops |-> 5, locations |-> <<<<"Tuek's Sietch">>>>, spice |-> 5]

Player_new(faction) ==
    LET iv == initial_values(faction) IN
    [faction        |-> faction,
     traitor_cards  |-> <<>>,
     treachery_cards |-> <<>>,
     total_spice    |-> iv.spice,
     reserve_troops |-> TotalTroops - iv.troops]

\* the fields of CameraNodes that the program reads
CameraNode == {"main", "board", "shield", "spice", "storm"}

\* A Transform is where the camera is: at rest at a place (from = to), or
\* part of the way (t quarters) from one place to another.
Rest(place) == [from |-> place, to |-> place, t |-> 0]

\* init: the camera's first transform is at a place that is no camera node
StartPlace == "start"

\* Transform::from_translation(dest.pos).looking_at(dest.at, dest.up)
DestTransform(dest) == Rest(dest)

\* transform.translation == dest.pos
AtPos(transform, dest) == transform.from = dest /\ transform.to = dest

\* -0.5 * cos(PI * elapsed / total) + 0.5, in quarters, for total = CameraTime
EaseQuarters(elapsed) ==
    LET e == (IF elapsed < 0 THEN -elapsed ELSE elapsed) % (2 * CameraTime) IN
    CASE e = 0 -> 0
      [] e = 1 -> 1
      [] e = 2 -> 3
      [] e = 3 -> 4
      [] e = 4 -> 3
      [] e = 5 -> 1

\* lerp_amount computed from the time that remains
LerpAmountOfRemaining(total_time, remaining_time) == EaseQuarters(remaining_time)

lerp_amount(total_time, remaining_time) == EaseQuarters(total_time - remaining_time)

\* translation and rotation of src lerped to those of dest by amount/4
Lerp(src, dest, amount) ==
    CASE amount = 0 -> src
      [] amount = 4 -> DestTransform(dest)
      [] OTHER      -> [from |-> src.from, to |-> dest, t |-> amount]

Action_move_camera(dest, time) ==
    [type |-> "CameraMotion", src |-> <<>>, dest |-> dest,
     remaining_time |-> time, total_time |-> time]

MakePrediction(player) == [type |-> "MakePrediction", player |-> player]

PlaceFreeTroops(player, num, locations) ==
    [type |-> "PlaceFreeTroops", player |-> player, num |-> num, locations |-> locations]

PickTraitors == [type |-> "PickTraitors"]

PlayPrompt(card) == [type |-> "PlayPrompt", treachery_card |-> card]

\* the variants of Action that ask a player for a decision
DecisionTypes ==
    {"Choice", "MakePrediction", "PlaceFreeTroops", "PlaceTroops", "PickTraitors",
     "PlayPrompt", "ButtonPress"}

-----------------------------------------------------------------------------
(* ActionStack *)

ActionStack_is_empty(s) == s = <<>>

ActionStack_push(s, action) == Append(s, action)

\* Option<&Action>: <<>> is None
ActionStack_peek(s) == IF s = <<>> THEN <<>> ELSE <<s[Len(s)]>>

\* Vec::pop: the vector without its last element, and that element (<<>> is None)
Vec_pop(v) ==
    IF v = <<>> THEN [rest |-> <<>>, result |-> <<>>]
    ELSE [rest |-> SubSeq(v, 1, Len(v) - 1), result |-> <<v[Len(v)]>>]

PopFront(s) ==
    IF s = <<>> THEN [rest |-> <<>>, result |-> <<>>]
    ELSE [rest |-> Tail(s), result |-> <<Head(s)>>]

ActionStack_pop(s) == Vec_pop(s)

\* writing through peek_mut's reference
ReplaceTop(s, action) == [s EXCEPT ![Len(s)] = action]

-----------------------------------------------------------------------------
(* Decks *)

Ident(n) == [i \in 1..n |-> i]

Rotate(deck, k) ==
    [i \in 1..Len(deck) |-> deck[((i - 1 + k) % Len(deck)) + 1]]

\* SliceRandom::shuffle: a permutation of the deck; the model draws it from
\* the rotations, which bring every card to the top
Shuffles(deck) ==
    IF deck = <<>> THEN {deck} ELSE {Rotate(deck, k) : k \in 0..(Len(deck) - 1)}

RECURSIVE Reverse(_)
Reverse(s) == IF s = <<>> THEN <<>> ELSE Append(Reverse(Tail(s)), Head(s))

\* StormCard { val }: card n carries val n
StormCard_val(card) == card

Range(seq) == {seq[i] : i \in 1..Len(seq)}

-----------------------------------------------------------------------------
(* The systems of a tick *)

\* the order with handle_phase added before input
SystemAfterSwapped(system) ==
    CASE system = "handle_actions" -> "handle_phase"
      [] system = "handle_phase"   -> "input"
      [] system = "input"          -> "handle_actions"

\* main(): add_system(handle_actions), add_system(input),
\* add_system(handle_phase); all three take ResMut<ActionStack>, so each
\* tick runs them one after the other in this order
SystemAfter(system) ==
    CASE system = "handle_actions" -> "input"
      [] system = "input"          -> "handle_phase"
      [] system = "handle_phase"   -> "handle_actions"

-----------------------------------------------------------------------------
(* handle_actions *)

\* CameraMotionStep with the terminal test written remaining_time < 0.0
CameraMotionStepStrict(action) ==
    IF action.remaining_time < 0
    THEN /\ camera' = DestTransform(action.dest)
         /\ stack' = ActionStack_pop(stack).rest
    ELSE IF ~AtPos(camera, action.dest)
    THEN \E dt \in 1..MaxDt :
            /\ camera' =
                  IF action.src # <<>>
                  THEN Lerp(action.src[1], action.dest,
                            lerp_amount(action.total_time, action.remaining_time))
                  ELSE camera
            /\ stack' =
                  ReplaceTop(stack,
                      [action EXCEPT
                          !.src = IF action.src # <<>> THEN @ ELSE <<camera>>,
                          !.remaining_time = @ - dt])
    ELSE /\ stack' = ActionStack_pop(stack).rest
         /\ UNCHANGED camera

\* CameraMotionStep with the time left as it is on the tick that captures src
CameraMotionStepLateStart(action) ==
    IF action.remaining_time <= 0
    THEN /\ camera' = DestTransform(action.dest)
         /\ stack' = ActionStack_pop(stack).rest
    ELSE IF ~AtPos(camera, action.dest)
    THEN IF action.src # <<>>
         THEN \E dt \in 1..MaxDt :
                 /\ camera' = Lerp(action.src[1], action.dest,
                                   lerp_amount(action.total_time, action.remaining_time))
                 /\ stack' = ReplaceTop(stack,
                                 [action EXCEPT !.remaining_time = @ - dt])
         ELSE /\ stack' = ReplaceTop(stack, [action EXCEPT !.src = <<camera>>])
              /\ UNCHANGED camera
    ELSE /\ stack' = ActionStack_pop(stack).rest
         /\ UNCHANGED camera

\* Action::CameraMotion on top of the stack, with a camera in the world
CameraMotionStep(action) ==
    IF action.remaining_time <= 0
    THEN /\ camera' = DestTransform(action.dest)
         /\ stack' = ActionStack_pop(stack).rest
    ELSE IF ~AtPos(camera, action.dest)
    THEN \E dt \in 1..MaxDt :
            /\ camera' =
                  IF action.src # <<>>
                  THEN Lerp(action.src[1], action.dest,
                            lerp_amount(action.total_time, action.remaining_time))
                  ELSE camera
            /\ stack' =
                  ReplaceTop(stack,
                      [action EXCEPT
                          !.src = IF action.src # <<>> THEN @ ELSE <<camera>>,
                          !.remaining_time = @ - dt])
    ELSE /\ stack' = ActionStack_pop(stack).rest
         /\ UNCHANGED camera

\* GenericPop emptying the vector (clear for pop)
GenericClear ==
    /\ stack' = <<>>
    /\ UNCHANGED camera

\* every other Action
GenericPop ==
    /\ stack' = ActionStack_pop(stack).rest
    /\ UNCHANGED camera

\* handle_actions passing the turn to the next player when it pops an
\* action other than a camera motion
HandleActionsPassing ==
    /\ pc = "handle_actions"
    /\ pc' = SystemAfter("handle_actions")
    /\ IF ActionStack_peek(stack) # <<>>
       THEN LET action == ActionStack_peek(stack)[1] IN
            IF action.type = "CameraMotion"
            THEN CameraMotionStep(action) /\ UNCHANGED info
            ELSE /\ GenericPop
                 /\ info' = [info EXCEPT
                                !.active_player = (@ + 1) % Len(info.play_order)]
       ELSE UNCHANGED <<stack, camera, info>>
    /\ popped_last' = (stack # <<>> /\ stack' = <<>>)
    /\ UNCHANGED <<data, state, resources, players, storm, visible,
                   at_start_steps, inputs, lifo, net>>

handle_actions ==
    /\ pc = "handle_actions"
    /\ pc' = SystemAfter("handle_actions")
    /\ IF ActionStack_peek(stack) # <<>>
       THEN LET action == ActionStack_peek(stack)[1] IN
            IF action.type = "CameraMotion"
            THEN CameraMotionStep(action)
            ELSE GenericPop
       ELSE UNCHANGED <<stack, camera>>
    /\ popped_last' = (stack # <<>> /\ stack' = <<>>)
    /\ UNCHANGED <<data, state, info, resources, players, storm, visible,
                   at_start_steps, inputs, lifo, net>>

-----------------------------------------------------------------------------
(* input *)

\* What the player does in a tick: the left button just pressed on a
\* collider ("board", "shield", "spice", "storm"), pressed where the ray
\* hits no collider ("miss"), or not pressed ("none"); Escape just pressed
\* or not.
ClickTarget == {"board", "shield", "spice", "storm"}

InputEvent == [mouse : {"none", "miss"} \cup ClickTarget, escape : BOOLEAN]

NoInput == [mouse |-> "none", escape |-> FALSE]

\* InputPush without the test of stack.is_empty()
InputPushAlways(s, ev) ==
    IF ev.mouse # "none"
    THEN IF ev.mouse \in ClickTarget
         THEN ActionStack_push(s, Action_move_camera(ev.mouse, CameraTime))
         ELSE s
    ELSE IF ev.escape
         THEN ActionStack_push(s, Action_move_camera("main", CameraTime))
         ELSE s

\* the stack after input has seen event ev
InputPush(s, ev) ==
    IF ActionStack_is_empty(s)
    THEN IF ev.mouse # "none"
         THEN IF ev.mouse \in ClickTarget
              THEN ActionStack_push(s, Action_move_camera(ev.mouse, CameraTime))
              ELSE s
         ELSE IF ev.escape
              THEN ActionStack_push(s, Action_move_camera("main", CameraTime))
              ELSE s
    ELSE s

input ==
    /\ pc = "input"
    /\ pc' = SystemAfter("input")
    /\ \E ev \in (IF inputs < MaxInputs THEN InputEvent ELSE {NoInput}) :
          /\ stack' = InputPush(stack, ev)
          /\ inputs' = IF stack' # stack THEN inputs + 1 ELSE inputs
    /\ UNCHANGED <<data, state, info, resources, players, storm, camera, visible,
                   at_start_steps, popped_last, lifo, net>>

-----------------------------------------------------------------------------
(* handle_phase *)

\* what every branch below leaves alone
PhaseFrame == UNCHANGED <<data, camera, inputs, popped_last, lifo, net>>

\* info.play_order[info.active_player]
ActiveEntity == info.play_order[info.active_player + 1]

\* NextActivePlayer without the remainder
NextActivePlayerNoWrap(i) == [i EXCEPT !.active_player = @ + 1]

\* info.active_player += 1; info.active_player %= info.play_order.len()
NextActivePlayer(i) == [i EXCEPT !.active_player = (@ + 1) % Len(i.play_order)]

\* SetupChooseFactions going on to Setup:AtStart, past Setup:Prediction
SetupChooseFactionsSkipping ==
    LET active_player_faction == players[ActiveEntity].faction IN
    /\ visible' = [f \in Faction |-> f = active_player_faction]
    /\ state' = Setup("AtStart")
    /\ pc' = SystemAfter("handle_phase")
    /\ UNCHANGED <<info, resources, players, storm, stack, at_start_steps>>

SetupChooseFactions ==
    LET active_player_faction == players[ActiveEntity].faction IN
    /\ visible' = [f \in Faction |-> f = active_player_faction]
    /\ state' = Setup("Prediction")
    /\ pc' = SystemAfter("handle_phase")
    /\ UNCHANGED <<info, resources, players, storm, stack, at_start_steps>>

\* PushPredictions without the test of the faction
RECURSIVE PushPredictionsAll(_, _)
PushPredictionsAll(s, entities) ==
    IF entities = <<>> THEN s
    ELSE PushPredictionsAll(ActionStack_push(s, MakePrediction(Head(entities))),
                            Tail(entities))

\* for (entity, player) in player_query.iter_mut(): one push per BeneGesserit
RECURSIVE PushPredictions(_, _)
PushPredictions(s, entities) ==
    IF entities = <<>> THEN s
    ELSE PushPredictions(
            IF players[Head(entities)].faction = "BeneGesserit"
            THEN ActionStack_push(s, MakePrediction(Head(entities)))
            ELSE s,
            Tail(entities))

\* SetupPrediction moving on to Setup:AtStart once it has pushed
SetupPredictionOnce ==
    /\ stack' = PushPredictions(stack, factions_in_play)
    /\ state' = Setup("AtStart")
    /\ pc' = SystemAfter("handle_phase")
    /\ UNCHANGED <<info, resources, players, storm, visible, at_start_steps>>

SetupPrediction ==
    /\ stack' = PushPredictions(stack, factions_in_play)
    /\ pc' = SystemAfter("handle_phase")
    /\ UNCHANGED <<state, info, resources, players, storm, visible, at_start_steps>>

\* CreditAndPush with troops and spice taken from each other's place in the
\* tuple of initial_values
CreditAndPushSwapped(ps, credited, player) ==
    LET iv == initial_values(ps.players[credited].faction) IN
    [players |-> [ps.players EXCEPT ![credited].total_spice = @ + iv.troops],
     stack   |-> ActionStack_push(ps.stack,
                     PlaceFreeTroops(player, iv.spice, iv.locations))]

\* active_player.total_spice += spice; stack.push(PlaceFreeTroops{player, ..})
\* with the values of credited's faction: [players, stack] afterwards
CreditAndPush(ps, credited, player) ==
    LET iv == initial_values(ps.players[credited].faction) IN
    [players |-> [ps.players EXCEPT ![credited].total_spice = @ + iv.spice],
     stack   |-> ActionStack_push(ps.stack,
                     PlaceFreeTroops(player, iv.troops, iv.locations))]

\* the match on active_player_faction: [players, stack] afterwards
AtStartPlacement(pl, s, order, entity) ==
    LET active_player_faction == pl[entity].faction
        ps0 == [players |-> pl, stack |-> s]
        \* where the loop over play_order breaks
        hits == {i \in 1..Len(order) :
                    pl[order[i]].faction \in {"BeneGesserit", "Fremen"}}
    IN
    IF active_player_faction \in {"BeneGesserit", "Fremen"}
    THEN IF hits = {} THEN ps0
         ELSE LET first_entity == order[CHOOSE i \in hits : \A j \in hits : i <= j]
                  first_player_faction == pl[first_entity].faction
              IN
              IF first_player_faction = "BeneGesserit"
              THEN IF active_player_faction = "BeneGesserit"
                   THEN \* both get_mut(&entity): the second credit and the
                        \* second action's values are the active player's too
                        CreditAndPush(CreditAndPush(ps0, entity, entity),
                                      entity, first_entity)
                   ELSE ps0
              ELSE CreditAndPush(ps0, entity, entity)
    ELSE CreditAndPush(ps0, entity, entity)

SetupAtStart ==
    LET after == AtStartPlacement(players, stack, info.play_order, ActiveEntity) IN
    /\ at_start_steps < MaxAtStartSteps
    /\ at_start_steps' = at_start_steps + 1
    /\ players' = after.players
    /\ stack' = after.stack
    /\ info' = NextActivePlayer(info)
    /\ pc' = SystemAfter("handle_phase")
    /\ UNCHANGED <<state, resources, storm, visible>>

RECURSIVE Repeat(_, _)
Repeat(seq, n) == IF n = 0 THEN <<>> ELSE seq \o Repeat(seq, n - 1)

\* Deal taking two cards off the deck for each one it hands out
RECURSIVE DealDrop(_, _, _, _)
DealDrop(recipients, deck, pl, hand) ==
    IF recipients = <<>> THEN [deck |-> deck, players |-> pl, panicked |-> FALSE]
    ELSE LET popped == Vec_pop(deck) IN
         IF popped.result = <<>>
         THEN [deck |-> deck, players |-> pl, panicked |-> TRUE]
         ELSE DealDrop(Tail(recipients), Vec_pop(popped.rest).rest,
                   IF hand = "traitor_cards"
                   THEN [pl EXCEPT ![Head(recipients)].traitor_cards =
                                        Append(@, popped.result[1])]
                   ELSE [pl EXCEPT ![Head(recipients)].treachery_cards =
                                        Append(@, popped.result[1])],
                   hand)

\* Deal reading the deck's last card (last for pop) and leaving it there
RECURSIVE DealPeek(_, _, _, _)
DealPeek(recipients, deck, pl, hand) ==
    IF recipients = <<>> THEN [deck |-> deck, players |-> pl, panicked |-> FALSE]
    ELSE LET popped == Vec_pop(deck) IN
         IF popped.result = <<>>
         THEN [deck |-> deck, players |-> pl, panicked |-> TRUE]
         ELSE DealPeek(Tail(recipients), deck,
                   IF hand = "traitor_cards"
                   THEN [pl EXCEPT ![Head(recipients)].traitor_cards =
                                        Append(@, popped.result[1])]
                   ELSE [pl EXCEPT ![Head(recipients)].treachery_cards =
                                        Append(@, popped.result[1])],
                   hand)

\* Deal passing over a recipient when the deck is empty (if let Some for
\* unwrap)
RECURSIVE DealSkip(_, _, _, _)
DealSkip(recipients, deck, pl, hand) ==
    IF recipients = <<>> THEN [deck |-> deck, players |-> pl, panicked |-> FALSE]
    ELSE LET popped == Vec_pop(deck) IN
         IF popped.result = <<>>
         THEN DealSkip(Tail(recipients), deck, pl, hand)
         ELSE DealSkip(Tail(recipients), popped.rest,
                   IF hand = "traitor_cards"
                   THEN [pl EXCEPT ![Head(recipients)].traitor_cards =
                                        Append(@, popped.result[1])]
                   ELSE [pl EXCEPT ![Head(recipients)].treachery_cards =
                                        Append(@, popped.result[1])],
                   hand)

\* player.<hand>.push(deck.pop().unwrap()) for each recipient in turn:
\* [deck, players, panicked] when the deals end or an unwrap panics
RECURSIVE Deal(_, _, _, _)
Deal(recipients, deck, pl, hand) ==
    IF recipients = <<>> THEN [deck |-> deck, players |-> pl, panicked |-> FALSE]
    ELSE LET popped == Vec_pop(deck) IN
         IF popped.result = <<>>
         THEN [deck |-> deck, players |-> pl, panicked |-> TRUE]
         ELSE Deal(Tail(recipients), popped.rest,
                   IF hand = "traitor_cards"
                   THEN [pl EXCEPT ![Head(recipients)].traitor_cards =
                                        Append(@, popped.result[1])]
                   ELSE [pl EXCEPT ![Head(recipients)].treachery_cards =
                                        Append(@, popped.result[1])],
                   hand)

\* each element of seq n times in a row
RECURSIVE EachTimes(_, _)
EachTimes(seq, n) ==
    IF seq = <<>> THEN <<>>
    ELSE [i \in 1..n |-> Head(seq)] \o EachTimes(Tail(seq), n)

\* DealTraitorsResult with the loops exchanged: four cards in a row to each
\* player
DealTraitorsByPlayer ==
    Deal(EachTimes(info.play_order, TraitorRounds), resources.traitor_deck, players,
         "traitor_cards")

\* for _ in 0..4 { for &entity in info.play_order.iter() {..} }
DealTraitorsResult ==
    Deal(Repeat(info.play_order, TraitorRounds), resources.traitor_deck, players,
         "traitor_cards")

SetupDealTraitors ==
    LET dealt == DealTraitorsResult IN
    /\ players' = dealt.players
    /\ resources' = [resources EXCEPT !.traitor_deck = dealt.deck]
    /\ IF dealt.panicked
       THEN pc' = "panicked" /\ UNCHANGED state
       ELSE pc' = SystemAfter("handle_phase") /\ state' = Setup("PickTraitors")
    /\ UNCHANGED <<info, storm, stack, visible, at_start_steps>>

SetupPickTraitors ==
    /\ stack' = ActionStack_push(stack, PickTraitors)
    /\ pc' = SystemAfter("handle_phase")
    /\ UNCHANGED <<state, info, resources, players, storm, visible, at_start_steps>>

\* TreacheryRecipients without the Harkonnen player's second card
TreacheryRecipientsPlain(order) == order

\* one card each, a second one to the Harkonnen player right after its first
RECURSIVE TreacheryRecipients(_)
TreacheryRecipients(order) ==
    IF order = <<>> THEN <<>>
    ELSE (IF players[Head(order)].faction = "Harkonnen"
          THEN <<Head(order), Head(order)>>
          ELSE <<Head(order)>>) \o TreacheryRecipients(Tail(order))

DealTreacheryResult ==
    Deal(TreacheryRecipients(info.play_order), resources.treachery_deck, players,
         "treachery_cards")

SetupDealTreachery ==
    LET dealt == DealTreacheryResult IN
    /\ players' = dealt.players
    /\ resources' = [resources EXCEPT !.treachery_deck = dealt.deck]
    /\ IF dealt.panicked
       THEN pc' = "panicked" /\ UNCHANGED state
       ELSE pc' = SystemAfter("handle_phase") /\ state' = Storm("Reveal")
    /\ UNCHANGED <<info, storm, stack, visible, at_start_steps>>

\* StormReveal with the two arms of its test exchanged
StormRevealSwapped ==
    /\ state' = IF info.turn = 0 THEN Storm("WeatherControl") ELSE Storm("MoveStorm")
    /\ pc' = SystemAfter("handle_phase")
    /\ UNCHANGED <<info, resources, players, storm, stack, visible, at_start_steps>>

\* StormReveal passing the turn on as the two sub-phases after it do
StormRevealPassing ==
    /\ state' = IF info.turn = 0 THEN Storm("MoveStorm") ELSE Storm("WeatherControl")
    /\ info' = NextActivePlayer(info)
    /\ pc' = SystemAfter("handle_phase")
    /\ UNCHANGED <<resources, players, storm, stack, visible, at_start_steps>>

StormReveal ==
    /\ state' = IF info.turn = 0 THEN Storm("MoveStorm") ELSE Storm("WeatherControl")
    /\ pc' = SystemAfter("handle_phase")
    /\ UNCHANGED <<info, resources, players, storm, stack, visible, at_start_steps>>

StormWeatherControl ==
    /\ stack' = ActionStack_push(stack, PlayPrompt("Weather Control"))
    /\ info' = NextActivePlayer(info)
    /\ pc' = SystemAfter("handle_phase")
    /\ UNCHANGED <<state, resources, players, storm, visible, at_start_steps>>

\* StormFamilyAtomics moving the storm on by a sector as well
StormFamilyAtomicsMoving ==
    /\ stack' = ActionStack_push(stack, PlayPrompt("Family Atomics"))
    /\ info' = NextActivePlayer(info)
    /\ storm' = [storm EXCEPT !.sector = (@ + 1) % Sectors]
    /\ pc' = SystemAfter("handle_phase")
    /\ UNCHANGED <<state, resources, players, visible, at_start_steps>>

StormFamilyAtomics ==
    /\ stack' = ActionStack_push(stack, PlayPrompt("Family Atomics"))
    /\ info' = NextActivePlayer(info)
    /\ pc' = SystemAfter("handle_phase")
    /\ UNCHANGED <<state, resources, players, storm, visible, at_start_steps>>

\* i32 %: the remainder has the sign of the dividend
RustRem(a, b) == IF a >= 0 THEN a % b ELSE -((-a) % b)

\* MovedSector without the remainder
MovedSectorNoWrap(sector, delta) == sector + delta

\* storm.sector += delta; storm.sector %= 18
MovedSector(sector, delta) == RustRem(sector + delta, Sectors)

\* StormMoveStorm taking the card off the deck (pop for last)
StormMoveStormPop ==
    /\ IF info.turn = 0
       THEN /\ \E sector \in 0..(Sectors - 1) : storm' = [storm EXCEPT !.sector = sector]
            /\ UNCHANGED resources
       ELSE LET popped == Vec_pop(resources.storm_deck)
                delta == StormCard_val(popped.result[1])
            IN
            /\ storm' = [storm EXCEPT !.sector = MovedSector(@, delta)]
            /\ \E shuffled \in Shuffles(popped.rest) :
                  resources' = [resources EXCEPT !.storm_deck = shuffled]
    /\ pc' = SystemAfter("handle_phase")
    /\ UNCHANGED <<state, info, players, stack, visible, at_start_steps>>

StormMoveStorm ==
    /\ IF info.turn = 0
       THEN /\ \E sector \in 0..(Sectors - 1) : storm' = [storm EXCEPT !.sector = sector]
            /\ UNCHANGED resources
       ELSE LET storm_card == resources.storm_deck[Len(resources.storm_deck)]
                delta == StormCard_val(storm_card)
            IN
            /\ storm' = [storm EXCEPT !.sector = MovedSector(@, delta)]
            /\ \E shuffled \in Shuffles(resources.storm_deck) :
                  resources' = [resources EXCEPT !.storm_deck = shuffled]
    /\ pc' = SystemAfter("handle_phase")
    /\ UNCHANGED <<state, info, players, stack, visible, at_start_steps>>

\* _ => ()
OtherPhaseStep ==
    /\ pc' = SystemAfter("handle_phase")
    /\ UNCHANGED <<state, info, resources, players, storm, stack, visible,
                   at_start_steps>>

\* match state.phase { .. }
PhaseStep ==
    CASE state = Setup("ChooseFactions") -> SetupChooseFactions
      [] state = Setup("Prediction")     -> SetupPrediction
      [] state = Setup("AtStart")        -> SetupAtStart
      [] state = Setup("DealTraitors")   -> SetupDealTraitors
      [] state = Setup("PickTraitors")   -> SetupPickTraitors
      [] state = Setup("DealTreachery")  -> SetupDealTreachery
      [] state = Storm("Reveal")         -> StormReveal
      [] state = Storm("WeatherControl") -> StormWeatherControl
      [] state = Storm("FamilyAtomics")  -> StormFamilyAtomics
      [] state = Storm("MoveStorm")      -> StormMoveStorm
      [] OTHER                           -> OtherPhaseStep

UngatedPhase ==
    /\ pc = "handle_phase"
    /\ PhaseStep
    /\ PhaseFrame

handle_phase ==
    /\ pc = "handle_phase"
    /\ IF ActionStack_is_empty(stack)
       THEN PhaseStep
       ELSE /\ pc' = SystemAfter("handle_phase")
            /\ UNCHANGED <<state, info, resources, players, storm, stack, visible,
                           at_start_steps>>
    /\ PhaseFrame

-----------------------------------------------------------------------------
(* The program: main() *)

\* info.play_order.shuffle: a permutation of the players; the model draws it
\* from the rotations of factions_in_play and of its reverse, where every
\* faction takes every place and each of BeneGesserit and Fremen comes first
PlayOrders ==
    Shuffles(factions_in_play) \cup Shuffles(Reverse(factions_in_play))

\* Info::new and init
Info_new(order) == [turn |-> 0, active_player |-> 0, play_order |-> order]

\* Resources::new and init: the decks as init builds and shuffles them (a
\* shuffled deck of cards nothing tells apart is numbered from the bottom)
Resources_new(leaders, treachery, storm_deck) ==
    [treachery_deck    |-> Ident(treachery),
     treachery_discard |-> <<>>,
     traitor_deck      |-> Ident(leaders),
     traitor_discard   |-> <<>>,
     storm_deck        |-> storm_deck]

NoLifo == [mode |-> "off", pushed |-> <<>>, popped |-> <<>>, last_pop |-> <<>>]

\* a client at process start: Screen::MainMenu, no roster, nothing received
\* (arrived and applied are history: every message received, every message
\* reduced, in order)
Client_new ==
    [screen |-> "MainMenu", players |-> <<>>, inbox |-> <<>>, arrived |-> <<>>,
     applied |-> <<>>]

\* the world as main() and init leave it, but for the fields Started sets
Started(phase, turn, order, leaders, treachery, storm_deck, place) ==
    /\ pc = "handle_actions"
    /\ data = [leaders |-> leaders, treachery_cards |-> treachery]
    /\ state = phase
    /\ info = [Info_new(order) EXCEPT !.turn = turn]
    /\ resources = Resources_new(leaders, treachery, storm_deck)
    /\ players = [f \in Faction |-> Player_new(f)]
    /\ storm = [sector |-> 0]
    /\ stack = <<>>
    /\ camera = Rest(place)
    /\ visible = [f \in Faction |-> FALSE]
    /\ at_start_steps = 0
    /\ inputs = 0
    /\ popped_last = FALSE

Init ==
    /\ lifo = NoLifo
    /\ net = Client_new
    /\ \E order \in PlayOrders :
          Started(Setup("ChooseFactions"), 0, order, NumLeaders, NumTreachery,
                  Ident(NumStormCards), StartPlace)

Next == handle_actions \/ input \/ handle_phase

Spec == Init /\ [][Next]_vars

-----------------------------------------------------------------------------
(* handle_phase entered in any phase *)

\* No step of the program leaves Setup:Prediction, Setup:PickTraitors or a
\* Storm sub-phase after Reveal, and none changes Info.turn.  To exercise
\* every branch of handle_phase, SpecPhases starts the program with State
\* set to any phase and Info.turn to 0 or MaxTurn, the rest as init leaves
\* it.  What a branch does not read is held at one value: the turn outside
\* Storm, the play order where handle_phase does not index it (the deals,
\* which only walk it, get it forwards and backwards), the deck sizes
\* outside the deals, the storm deck's order outside MoveStorm.  In
\* Setup:Prediction, where the program stays, the camera may also rest at
\* the node an earlier motion has brought it to.
BaseOrder == factions_in_play

ReadsOrder(phase) ==
    phase \in {Setup("ChooseFactions"), Setup("AtStart"), Setup("DealTraitors"),
               Setup("DealTreachery")}

BranchesOnOrder(phase) == phase \in {Setup("ChooseFactions"), Setup("AtStart")}

InitPhases ==
    /\ lifo = NoLifo
    /\ net = Client_new
    /\ \E phase \in Phase, turn \in {0, MaxTurn}, order \in PlayOrders,
          leaders \in (NumLeaders - 1)..NumLeaders,
          treachery \in (NumTreachery - 1)..NumTreachery,
          storm_deck \in Shuffles(Ident(NumStormCards)),
          place \in {StartPlace} \cup CameraNode :
           /\ turn # 0 => phase.phase = "Storm"
           /\ order # BaseOrder => ReadsOrder(phase)
           /\ order \notin {BaseOrder, Reverse(BaseOrder)} => BranchesOnOrder(phase)
           /\ leaders # NumLeaders => phase = Setup("DealTraitors")
           /\ treachery # NumTreachery => phase = Setup("DealTreachery")
           /\ storm_deck # Ident(NumStormCards) => phase = Storm("MoveStorm")
           /\ place # StartPlace => phase = Setup("Prediction")
           /\ Started(phase, turn, order, leaders, treachery, storm_deck, place)

SpecPhases == InitPhases /\ [][Next]_vars

-----------------------------------------------------------------------------
(* ActionStack on its own: pushes, then pops until a pop finds it empty *)

SampleActions ==
    {MakePrediction("BeneGesserit"), PickTraitors,
     Action_move_camera("board", CameraTime)}

InitLifo ==
    /\ lifo = [NoLifo EXCEPT !.mode = "push"]
    /\ net = Client_new
    /\ Started(Setup("ChooseFactions"), 0, BaseOrder, NumLeaders, NumTreachery,
               Ident(NumStormCards), StartPlace)


LifoPush ==
    /\ lifo.mode = "push"
    /\ Len(lifo.pushed) < MaxPush
    /\ \E action \in SampleActions :
          /\ stack' = ActionStack_push(stack, action)
          /\ lifo' = [lifo EXCEPT !.pushed = Append(@, action)]
    /\ UNCHANGED <<pc, data, state, info, resources, players, storm, camera,
                   visible, at_start_steps, inputs, popped_last, net>>

LifoPop ==
    /\ lifo.mode \in {"push", "drain"}
    /\ LET popped == ActionStack_pop(stack) IN
          /\ stack' = popped.rest
          /\ lifo' = [lifo EXCEPT
                         !.mode = IF ActionStack_is_empty(stack) THEN "drained" ELSE "drain",
                         !.popped = @ \o popped.result,
                         !.last_pop = popped.result]
    /\ UNCHANGED <<pc, data, state, info, resources, players, storm, camera,
                   visible, at_start_steps, inputs, popped_last, net>>

NextLifo == LifoPush \/ LifoPop

SpecLifo == InitLifo /\ [][NextLifo]_vars

-----------------------------------------------------------------------------
(* NetworkSyncProtocol: a client and the messages it receives *)

\* messages a run delivers to the client
MaxMessages == 3

Screen == {"MainMenu", "Server", "Join", "Loading", "HostingGame", "JoinedGame"}

\* the rosters of display names a host broadcasts in the model
Rosters == {<<>>, <<"A">>, <<"A", "B">>}

\* MessageData: Load, Loaded, ServerInfo { players }
Load == [type |-> "Load"]

Loaded == [type |-> "Loaded"]

ServerInfo(players_) == [type |-> "ServerInfo", players |-> players_]

MessageData == {Load, Loaded} \cup {ServerInfo(r) : r \in Rosters}

\* Reduce with ServerInfo merged into the cached roster
ReduceMerge(client, msg) ==
    CASE msg.type = "Load"       -> [client EXCEPT !.screen = "Loading"]
      [] msg.type = "ServerInfo" -> [client EXCEPT !.players = @ \o msg.players]
      [] OTHER                   -> client

\* one inbound message reduced on the client: Load forces Screen to
\* Loading, ServerInfo replaces the roster, Loaded is for the host only
Reduce(client, msg) ==
    CASE msg.type = "Load"       -> [client EXCEPT !.screen = "Loading"]
      [] msg.type = "ServerInfo" -> [client EXCEPT !.players = msg.players]
      [] OTHER                   -> client

\* the messages of a tick drained in arrival order, each reduced once
RECURSIVE Drain(_)
Drain(client) ==
    IF client.inbox = <<>> THEN client
    ELSE LET msg == Head(client.inbox) IN
         Drain([Reduce(client, msg) EXCEPT !.inbox = Tail(client.inbox),
                                           !.applied = Append(@, msg)])

\* the transport delivers a message
Receive ==
    /\ Len(net.arrived) < MaxMessages
    /\ \E msg \in MessageData :
          net' = [net EXCEPT !.inbox = Append(@, msg), !.arrived = Append(@, msg)]
    /\ UNCHANGED <<pc, data, state, info, resources, players, storm, stack, camera,
                   visible, at_start_steps, inputs, popped_last, lifo>>

\* a tick of the client
ClientTick ==
    /\ net' = Drain(net)
    /\ UNCHANGED <<pc, data, state, info, resources, players, storm, stack, camera,
                   visible, at_start_steps, inputs, popped_last, lifo>>

InitNet ==
    /\ lifo = NoLifo
    /\ net = Client_new
    /\ Started(Setup("ChooseFactions"), 0, BaseOrder, NumLeaders, NumTreachery,
               Ident(NumStormCards), StartPlace)

NextNet == Receive \/ ClientTick

SpecNet == InitNet /\ [][NextNet]_vars

-----------------------------------------------------------------------------
(* Properties *)

Top(s) == s[Len(s)]

\* the hands of all players, one after the other
RECURSIVE Hands(_, _, _)
Hands(pl, entities, hand) ==
    IF entities = <<>> THEN <<>>
    ELSE (IF hand = "traitor_cards" THEN pl[Head(entities)].traitor_cards
          ELSE pl[Head(entities)].treachery_cards) \o Hands(pl, Tail(entities), hand)

\* every place a card of one kind can be: deck, discard, hands
TraitorCards(res, pl) ==
    res.traitor_deck \o res.traitor_discard \o Hands(pl, factions_in_play, "traitor_cards")

TreacheryCards(res, pl) ==
    res.treachery_deck \o res.treachery_discard
        \o Hands(pl, factions_in_play, "treachery_cards")

StormCards(res) == res.storm_deck

NoDuplicates(seq) == \A i, j \in 1..Len(seq) : seq[i] = seq[j] => i = j

\* C1: handle_phase run with a non-empty stack changes neither the phase,
\* nor Info (active_player), nor any player, deck, the storm or the stack.
C1_PhaseGated ==
    [][(pc = "handle_phase" /\ ~ActionStack_is_empty(stack))
        => UNCHANGED <<state, info, players, resources, storm, stack>>]_vars

\* a camera motion pushed by input in Setup:AtStart, with the stack empty
\* before it, has been passed over by handle_phase
C1_Witness ==
    /\ pc = "handle_actions"
    /\ state = Setup("AtStart")
    /\ Len(stack) = 1
    /\ stack[1].type = "CameraMotion"
    /\ stack[1].src = <<>>

\* C2: a player-decision action on top of the stack stays on top of it at
\* every step, the player supplying no input (no step of the program reads
\* a player's decision).
C2_DecisionStays ==
    [][(stack # <<>> /\ Top(stack).type \in DecisionTypes)
        => (Len(stack') = Len(stack) /\ Top(stack') = Top(stack))]_vars

\* C3: after one pass of Setup:AtStart through play_order every player's
\* total_spice is what Player::new gave it plus its faction's initial spice.
C3_CreditedOnce ==
    (state = Setup("AtStart") /\ at_start_steps = Len(info.play_order))
        => \A f \in Faction :
              players[f].total_spice
                  = Player_new(f).total_spice + initial_values(f).spice

\* the order of the sub-phases the program gives a branch to
PhaseOrder ==
    <<Setup("ChooseFactions"), Setup("Prediction"), Setup("AtStart"),
      Setup("DealTraitors"), Setup("PickTraitors"), Setup("DealTreachery"),
      Storm("Reveal"), Storm("WeatherControl"), Storm("FamilyAtomics"),
      Storm("MoveStorm")>>

Rank(phase) ==
    IF phase \in Range(PhaseOrder)
    THEN CHOOSE i \in 1..Len(PhaseOrder) : PhaseOrder[i] = phase
    ELSE Len(PhaseOrder) + 1

\* C4: every step leaves (Phase, SubPhase) where it is or moves it to the
\* next value of PhaseOrder; the one skip is Storm:Reveal to Storm:MoveStorm
\* on turn 0.
C4_NeverBackward ==
    [][\/ state' = state
       \/ Rank(state') = Rank(state) + 1
       \/ (state = Storm("Reveal") /\ info.turn = 0 /\ state' = Storm("MoveStorm"))]_vars

\* Storm:MoveStorm reached on turn 0 from Setup:DealTreachery by way of
\* Storm:Reveal (the treachery cards have been dealt)
C4_Witness ==
    /\ state = Storm("MoveStorm")
    /\ info.turn = 0
    /\ \A f \in Faction : players[f].treachery_cards # <<>>

\* C5 as stated: no CameraMotion whose ticks add up to total_time or more
\* (total_time - remaining_time >= total_time) is still on the stack.
C5_PoppedOnceElapsed ==
    \A i \in 1..Len(stack) :
        stack[i].type = "CameraMotion"
            => stack[i].total_time - stack[i].remaining_time < stack[i].total_time

\* C5 amended: the run of handle_actions that finds on top a CameraMotion
\* whose ticks add up to total_time or more pops it and sets the camera to
\* the destination transform.
C5_SnapOnNextTick ==
    [][(/\ pc = "handle_actions"
        /\ stack # <<>>
        /\ Top(stack).type = "CameraMotion"
        /\ Top(stack).total_time - Top(stack).remaining_time >= Top(stack).total_time)
        => (/\ stack' = SubSeq(stack, 1, Len(stack) - 1)
            /\ camera' = DestTransform(Top(stack).dest))]_vars

\* a motion from the start transform has ended: the camera rests at a node
C5_Witness ==
    /\ pc = "input"
    /\ stack = <<>>
    /\ inputs > 0
    /\ \E dest \in CameraNode : camera = DestTransform(dest)

\* C6: once popping has begun, the actions popped so far followed by those
\* still on the stack, top first, are the pushed actions in reverse; a pop
\* that finds the stack empty returns None and leaves it empty.
C6_Lifo ==
    /\ lifo.mode \in {"drain", "drained"}
          => lifo.popped \o Reverse(stack) = Reverse(lifo.pushed)
    /\ lifo.mode = "drained"
          => (stack = <<>> /\ lifo.last_pop = <<>>
              /\ lifo.popped = Reverse(lifo.pushed))

\* three different actions pushed and all popped, then one more pop
C6_Witness ==
    /\ lifo.mode = "drained"
    /\ Len(lifo.pushed) >= 3
    /\ NoDuplicates(lifo.pushed)
    /\ Len(lifo.popped) = Len(lifo.pushed)

\* C7: every step leaves each element below the top of the stack where it
\* is and as it is.
C7_BelowTopUntouched ==
    [][\A i \in 1..(Len(stack) - 1) : i <= Len(stack') /\ stack'[i] = stack[i]]_vars

\* handle_actions has popped one of two actions and left the lower one
C7_Witness ==
    /\ pc = "input"
    /\ Len(stack) = 1
    /\ stack[1].type = "PlaceFreeTroops"
    /\ state = Setup("AtStart")
    /\ \E i \in 1..Len(info.play_order) :
          /\ info.play_order[i] = "BeneGesserit"
          /\ info.active_player = i % Len(info.play_order)

\* C8: every step leaves the number of cards of each kind (deck, discard
\* and hands together) the same.
C8_DeckConservation ==
    [][/\ Len(TraitorCards(resources', players')) = Len(TraitorCards(resources, players))
       /\ Len(TreacheryCards(resources', players'))
             = Len(TreacheryCards(resources, players))
       /\ Len(StormCards(resources')) = Len(StormCards(resources))]_vars

\* the traitor cards have been dealt, four to each player
C8_Witness ==
    /\ state = Setup("PickTraitors")
    /\ \A f \in Faction : Len(players[f].traitor_cards) = TraitorRounds

\* C9: every card is in exactly one place among its deck, its discard pile
\* and the players' hands.
C9_OnePlace ==
    /\ NoDuplicates(TraitorCards(resources, players))
    /\ Range(TraitorCards(resources, players)) = 1..data.leaders
    /\ NoDuplicates(TreacheryCards(resources, players))
    /\ Range(TreacheryCards(resources, players)) = 1..data.treachery_cards
    /\ NoDuplicates(StormCards(resources))
    /\ Range(StormCards(resources)) = 1..NumStormCards

\* the treachery cards have been dealt, two of them to the Harkonnen player
C9_Witness ==
    /\ state = Storm("Reveal")
    /\ Len(players["Harkonnen"].treachery_cards) = 2
    /\ Len(resources.treachery_deck) < data.treachery_cards

\* C10: a Storm:MoveStorm step on a turn other than the first moves the
\* storm from sector s to (s + v) mod 18, v the value of the storm deck's
\* top (last) card; and the sector is always within 0..17.
C10_StormWrap ==
    /\ [][(/\ pc = "handle_phase"
           /\ ActionStack_is_empty(stack)
           /\ state = Storm("MoveStorm")
           /\ info.turn # 0)
           => storm'.sector
                 = (storm.sector + StormCard_val(Top(resources.storm_deck))) % 18]_vars
    /\ [](storm.sector \in 0..17)

\* the storm has moved on a later turn
C10_Witness ==
    /\ state = Storm("MoveStorm")
    /\ info.turn # 0
    /\ pc = "handle_actions"
    /\ storm.sector = 17

\* a camera motion as input pushes it, not yet evaluated by handle_actions
Fresh(action) ==
    /\ action.type = "CameraMotion"
    /\ action.src = <<>>
    /\ action.remaining_time = action.total_time

\* the sub-phases whose branch of handle_phase changes the phase or the stack
\* every time it runs
ActingPhases ==
    {Setup("ChooseFactions"), Setup("Prediction"), Setup("PickTraitors"),
     Storm("Reveal"), Storm("WeatherControl"), Storm("FamilyAtomics")}

\* C11 as stated, its last part: in a tick where handle_actions has popped
\* the last action, handle_phase finds the stack empty and runs its branch.
C11_AdvancesSameTick ==
    (pc = "handle_phase" /\ popped_last) => ActionStack_is_empty(stack)

\* C11 amended: each tick runs handle_actions, then input, then
\* handle_phase; what handle_phase pushes is on the stack, as pushed, when
\* the next tick's handle_actions runs; and in a tick where handle_actions
\* has popped the last action, handle_phase runs its branch in that tick
\* unless input has pushed a camera motion in between, which is then the
\* only action on the stack.
C11_StackStepFirst ==
    /\ [][/\ pc = "handle_actions" => pc' = "input"
          /\ pc = "input" => pc' = "handle_phase"
          /\ pc = "handle_phase" => pc' \in {"handle_actions", "panicked"}
          /\ (pc = "handle_phase" /\ stack' # stack)
                => (pc' = "handle_actions" /\ ActionStack_is_empty(stack))
          /\ (pc = "handle_phase" /\ popped_last /\ ActionStack_is_empty(stack)
                /\ state \in ActingPhases)
                => <<state, stack>>' # <<state, stack>>]_vars
    /\ [](pc = "handle_phase" /\ popped_last /\ ~ActionStack_is_empty(stack)
            => Len(stack) = 1 /\ Fresh(stack[1]))

\* handle_actions has popped the last action and, input pushing nothing,
\* handle_phase has pushed the next one in the same tick
C11_Witness ==
    /\ pc = "handle_actions"
    /\ popped_last
    /\ state = Setup("PickTraitors")
    /\ stack = <<PickTraitors>>

\* the player-decision actions on a stack
Decisions(s) == {i \in 1..Len(s) : s[i].type \in DecisionTypes}

\* BeneGesserit comes before Fremen in a play order
BeneGesseritFirst(order) ==
    \E i, j \in 1..Len(order) :
        i < j /\ order[i] = "BeneGesserit" /\ order[j] = "Fremen"

Interpolates ==
    /\ pc = "handle_actions"
    /\ stack # <<>>
    /\ Top(stack).type = "CameraMotion"
    /\ Top(stack).remaining_time > 0
    /\ ~AtPos(camera, Top(stack).dest)
    /\ Top(stack).src # <<>>

\* the eased parameter, in quarters, that has put the camera where it is
Eased(transform, action) ==
    CASE transform = action.src[1]               -> 0
      [] transform = DestTransform(action.dest)  -> 4
      [] OTHER                                   -> transform.t

\* C13: on every tick that interpolates a CameraMotion the elapsed time
\* total_time - remaining_time is within 0..total_time, the eased parameter
\* is within 0..1 (0..4 quarters) and is not less than the one of the
\* motion's tick before, and the camera is put at that parameter between
\* src and the destination.
C13_EasingBounds ==
    [][Interpolates
        => LET action == Top(stack)
               t == lerp_amount(action.total_time, action.remaining_time)
           IN
           /\ action.total_time - action.remaining_time \in 0..action.total_time
           /\ t \in 0..4
           /\ t >= Eased(camera, action)
           /\ Eased(camera', action) = t
           /\ camera' = Lerp(action.src[1], action.dest, t)]_vars

\* a motion has been interpolated three quarters of the way after its
\* capturing tick, and is still on the stack
C13_Witness ==
    /\ pc = "input"
    /\ stack # <<>>
    /\ Top(stack).type = "CameraMotion"
    /\ Top(stack).src # <<>>
    /\ camera = [from |-> Top(stack).src[1].from, to |-> Top(stack).dest, t |-> 3]

\* the rosters of the ServerInfo messages among msgs, in order
RECURSIVE RostersOf(_)
RostersOf(msgs) ==
    IF msgs = <<>> THEN <<>>
    ELSE (IF Head(msgs).type = "ServerInfo" THEN <<Head(msgs).players>> ELSE <<>>)
             \o RostersOf(Tail(msgs))

\* C14: a client in Screen MainMenu that receives Load is in Screen Loading
\* once the message is reduced; a ServerInfo makes the cached roster the
\* list it carries and leaves Screen as it is; the messages reduced so far,
\* followed by those waiting, are the messages received, in arrival order
\* (each reduced once).
C14_Reduction ==
    /\ [][net' # net /\ net'.arrived = net.arrived
           => /\ net'.inbox = <<>>
              /\ net'.applied = net.applied \o net.inbox
              /\ net'.screen =
                    IF Load \in Range(net.inbox) THEN "Loading" ELSE net.screen
              /\ net'.players =
                    IF RostersOf(net.inbox) = <<>> THEN net.players
                    ELSE Top(RostersOf(net.inbox))]_vars
    /\ [](/\ net.screen \in Screen
          /\ net.applied \o net.inbox = net.arrived
          /\ net.screen = (IF Load \in Range(net.applied) THEN "Loading" ELSE "MainMenu")
          /\ net.players =
                (IF RostersOf(net.applied) = <<>> THEN <<>>
                 ELSE Top(RostersOf(net.applied))))

\* Load, then ServerInfo{A, B}, then ServerInfo{A} have been reduced
C14_Witness ==
    /\ net.applied = <<Load, ServerInfo(<<"A", "B">>), ServerInfo(<<"A">>)>>
    /\ net.inbox = <<>>
    /\ net.screen = "Loading"
    /\ net.players = <<"A">>

\* handle_phase is about to run the Setup:AtStart branch
AtStartStep ==
    /\ pc = "handle_phase"
    /\ ActionStack_is_empty(stack)
    /\ state = Setup("AtStart")

\* the PlaceFreeTroops of a player with its own faction's initial_values
OwnPlacement(entity) ==
    LET iv == initial_values(players[entity].faction) IN
    PlaceFreeTroops(entity, iv.troops, iv.locations)

\* C15: the Setup:AtStart step of a BeneGesserit or Fremen active player,
\* with BeneGesserit before Fremen in play_order, leaves on the stack the
\* Fremen player's own placement and, on top of it, the BeneGesserit
\* player's own placement, and nothing else.
C15_BothPlacements ==
    [][(/\ AtStartStep
        /\ players[ActiveEntity].faction \in {"BeneGesserit", "Fremen"}
        /\ BeneGesseritFirst(info.play_order))
        => stack' = <<OwnPlacement("Fremen"), OwnPlacement("BeneGesserit")>>]_vars

\* C16: the Setup:AtStart step of an active player that is neither
\* BeneGesserit nor Fremen, or is one of them with Fremen before
\* BeneGesserit in play_order, leaves on the stack one action, the active
\* player's PlaceFreeTroops with its faction's initial_values.
C16_OnePlacement ==
    [][(/\ AtStartStep
        /\ \/ players[ActiveEntity].faction \notin {"BeneGesserit", "Fremen"}
           \/ ~BeneGesseritFirst(info.play_order))
        => stack' = <<OwnPlacement(ActiveEntity)>>]_vars

\* with Fremen before BeneGesserit, the BeneGesserit player's step has
\* pushed its one placement
C16_Witness ==
    /\ pc = "handle_actions"
    /\ state = Setup("AtStart")
    /\ ~BeneGesseritFirst(info.play_order)
    /\ stack = <<OwnPlacement("BeneGesserit")>>

\* handle_actions is about to evaluate for the first time the motion on top
\* of the stack, the camera being away from the destination
Captures ==
    /\ pc = "handle_actions"
    /\ stack # <<>>
    /\ Top(stack).type = "CameraMotion"
    /\ Top(stack).remaining_time > 0
    /\ ~AtPos(camera, Top(stack).dest)
    /\ Top(stack).src = <<>>

\* C17 as stated: the tick that captures src leaves remaining_time as it is.
C17_CaptureKeepsTime ==
    [][Captures
        => /\ Len(stack') = Len(stack)
           /\ Top(stack').src = <<camera>>
           /\ Top(stack').remaining_time = Top(stack).remaining_time]_vars

\* C17 amended: the tick that captures src stores the camera transform as
\* src, leaves the camera where it is and takes the tick's elapsed time off
\* remaining_time, as every later tick that interpolates the motion does.
C17_CaptureAdvancesTime ==
    [][(Captures \/ Interpolates)
        => /\ \E dt \in 1..MaxDt :
                 stack' = ReplaceTop(stack,
                     [Top(stack) EXCEPT
                         !.src = IF Captures THEN <<camera>> ELSE @,
                         !.remaining_time = @ - dt])
           /\ Captures => camera' = camera]_vars

\* src has just been captured: the camera is still there and time has
\* been taken off
C17_Witness ==
    /\ pc = "input"
    /\ stack # <<>>
    /\ Top(stack).type = "CameraMotion"
    /\ Top(stack).src = <<camera>>
    /\ Top(stack).remaining_time < Top(stack).total_time

\* C18: every run of handle_phase in Setup:Prediction with an empty stack
\* leaves on the stack one MakePrediction for each BeneGesserit player and
\* nothing else, and leaves the sub-phase at Prediction; no step leaves
\* Setup:Prediction, so every later run that finds the stack empty pushes
\* again.
C18_PredictionRepeats ==
    [][/\ (pc = "handle_phase" /\ ActionStack_is_empty(stack)
            /\ state = Setup("Prediction"))
          => /\ Len(stack') = Cardinality({f \in Faction :
                                              players[f].faction = "BeneGesserit"})
             /\ \A i \in 1..Len(stack') :
                   /\ stack'[i].type = "MakePrediction"
                   /\ players[stack'[i].player].faction = "BeneGesserit"
             /\ stack' # <<>>
       /\ state = Setup("Prediction") => state' = state]_vars

\* with no input so far, handle_actions has popped a MakePrediction and
\* handle_phase has pushed the next one in the same tick
C18_Witness ==
    /\ pc = "handle_actions"
    /\ state = Setup("Prediction")
    /\ inputs = 0
    /\ popped_last
    /\ stack = <<MakePrediction("BeneGesserit")>>

\* C19: a Setup:DealTraitors step with n players and at least 4 * n cards
\* in traitor_deck gives the player at place i of play_order, in round r
\* of 4, the card that is (r - 1) * n + i - 1 places from the end of the
\* deck, after the cards the player had; it leaves the deck without its
\* last 4 * n cards and the sub-phase at PickTraitors.
C19_DealTraitors ==
    [][LET order == info.play_order
           n == Len(order)
           deck == resources.traitor_deck
       IN
       (/\ pc = "handle_phase"
        /\ ActionStack_is_empty(stack)
        /\ state = Setup("DealTraitors")
        /\ Len(deck) >= 4 * n)
        => /\ \A i \in 1..n :
                 players'[order[i]].traitor_cards
                    = players[order[i]].traitor_cards
                        \o [r \in 1..4 |-> deck[Len(deck) - ((r - 1) * n + i - 1)]]
           /\ \A f \in Faction :
                 Len(players'[f].traitor_cards) = Len(players[f].traitor_cards) + 4
           /\ resources'.traitor_deck = SubSeq(deck, 1, Len(deck) - 4 * n)
           /\ state' = Setup("PickTraitors")]_vars

\* the traitor cards have been dealt in rounds: the first player of
\* play_order holds the last card of the deck and every sixth one before it
C19_Witness ==
    /\ pc = "handle_actions"
    /\ state = Setup("PickTraitors")
    /\ Len(resources.traitor_deck) = data.leaders - 4 * Len(info.play_order)
    /\ players[info.play_order[1]].traitor_cards
          = [r \in 1..4 |-> data.leaders - (r - 1) * Len(info.play_order)]

\* C20: a Setup:DealTreachery step that no unwrap stops gives every player
\* of play_order one treachery card, the Harkonnen player two, leaves
\* treachery_deck without that many of its last cards, and sets the phase
\* to Storm:Reveal.
C20_DealTreachery ==
    [][LET order == info.play_order
           deck == resources.treachery_deck
           given(f) == IF players[f].faction = "Harkonnen" THEN 2 ELSE 1
           harkonnens == {i \in 1..Len(order) :
                            players[order[i]].faction = "Harkonnen"}
           total == Len(order) + Cardinality(harkonnens)
       IN
       (/\ pc = "handle_phase"
        /\ ActionStack_is_empty(stack)
        /\ state = Setup("DealTreachery")
        /\ pc' # "panicked")
        => /\ \A i \in 1..Len(order) :
                 Len(players'[order[i]].treachery_cards)
                    = Len(players[order[i]].treachery_cards) + given(order[i])
           /\ Len(deck) >= total
           /\ resources'.treachery_deck = SubSeq(deck, 1, Len(deck) - total)
           /\ state' = Storm("Reveal")]_vars

\* the treachery cards have been dealt: seven cards off the deck, two of
\* them with the Harkonnen player, one with each of the others
C20_Witness ==
    /\ pc = "handle_actions"
    /\ state = Storm("Reveal")
    /\ Len(resources.treachery_deck) = data.treachery_cards - 7
    /\ \A f \in Faction :
          Len(players[f].treachery_cards) = (IF f = "Harkonnen" THEN 2 ELSE 1)

\* C21: a Storm:Reveal step with an empty stack sets the sub-phase to
\* MoveStorm on turn 0 and to WeatherControl on any other turn, and leaves
\* the stack, the storm, the decks, Info (turn, active_player, play_order),
\* the players and the camera as they are.
C21_RevealStep ==
    [][(/\ pc = "handle_phase"
        /\ ActionStack_is_empty(stack)
        /\ state = Storm("Reveal"))
        => /\ state' = IF info.turn = 0 THEN Storm("MoveStorm")
                       ELSE Storm("WeatherControl")
           /\ UNCHANGED <<stack, storm, resources, info, players, camera, visible>>]_vars

\* Storm:Reveal, entered from Setup:DealTreachery on turn 0, has moved on
\* to Storm:MoveStorm and left the stack empty and the storm where it was
C21_Witness ==
    /\ pc = "handle_actions"
    /\ state = Storm("MoveStorm")
    /\ info.turn = 0
    /\ Len(players["Harkonnen"].treachery_cards) = 2
    /\ stack = <<>>
    /\ storm.sector = 0
    /\ info.active_player = 0

\* handle_phase is about to run the Storm:MoveStorm branch on a turn other
\* than the first
MoveStormStep ==
    /\ pc = "handle_phase"
    /\ ActionStack_is_empty(stack)
    /\ state = Storm("MoveStorm")
    /\ info.turn # 0

\* C22 as stated: the step takes the top (last) card off storm_deck, moves
\* the storm by its value modulo 18 and leaves the other cards, in some
\* order, as the deck.
C22_PopsStormCard ==
    [][MoveStormStep
        => LET deck == resources.storm_deck IN
           /\ storm'.sector = (storm.sector + StormCard_val(Top(deck))) % 18
           /\ Len(resources'.storm_deck) = Len(deck) - 1
           /\ Range(resources'.storm_deck) = Range(SubSeq(deck, 1, Len(deck) - 1))]_vars

\* C22 amended: the step reads the top (last) card of storm_deck and
\* leaves it in the deck, moves the storm by its value modulo 18, and
\* leaves as the deck all its cards, that one too, in some order.
C22_ReadsStormCard ==
    [][MoveStormStep
        => LET deck == resources.storm_deck IN
           /\ storm'.sector = (storm.sector + StormCard_val(Top(deck))) % 18
           /\ Len(resources'.storm_deck) = Len(deck)
           /\ Range(resources'.storm_deck) = Range(deck)
           /\ NoDuplicates(resources'.storm_deck)]_vars

\* the storm has moved on a later turn and the deck, shuffled, has all its
\* cards
C22_Witness ==
    /\ pc = "handle_actions"
    /\ state = Storm("MoveStorm")
    /\ info.turn # 0
    /\ storm.sector # 0
    /\ Len(resources.storm_deck) = NumStormCards
    /\ resources.storm_deck # Ident(NumStormCards)

\* C23: a step that changes the storm sector is a run of handle_phase in
\* Storm:MoveStorm with an empty stack; handle_actions, input and every
\* other branch of handle_phase leave the storm as it is.
C23_OnlyMoveStorm ==
    [][storm' # storm
        => (/\ pc = "handle_phase"
            /\ ActionStack_is_empty(stack)
            /\ state = Storm("MoveStorm"))]_vars

\* on turn 0 Storm:MoveStorm has put the storm in a sector other than the
\* one init gave it, and handle_actions and input have run since
C23_Witness ==
    /\ pc = "handle_phase"
    /\ state = Storm("MoveStorm")
    /\ info.turn = 0
    /\ storm.sector = 9

\* the cards a Setup:DealTreachery step hands out: one to each player of
\* play_order and one more to each Harkonnen player
TreacheryNeeded ==
    Len(info.play_order)
        + Cardinality({i \in 1..Len(info.play_order) :
                          players[info.play_order[i]].faction = "Harkonnen"})

\* C24: a Setup:DealTraitors step with fewer than 4 * n cards in
\* traitor_deck, and a Setup:DealTreachery step with fewer cards in
\* treachery_deck than it hands out, end in a panic with the phase as it
\* was; nothing runs after a panic; and the sub-phase after either deal is
\* never reached with a player short of cards.
C24_ShortDeckPanics ==
    /\ [][/\ (/\ pc = "handle_phase"
               /\ ActionStack_is_empty(stack)
               /\ \/ /\ state = Setup("DealTraitors")
                     /\ Len(resources.traitor_deck) < 4 * Len(info.play_order)
                  \/ /\ state = Setup("DealTreachery")
                     /\ Len(resources.treachery_deck) < TreacheryNeeded)
             => (pc' = "panicked" /\ state' = state)
          /\ pc # "panicked"]_vars
    /\ [](/\ (state = Setup("PickTraitors") /\ data.leaders < 4 * Len(info.play_order))
             => \A f \in Faction : Len(players[f].traitor_cards) = 4
          /\ (state = Storm("Reveal") /\ data.treachery_cards < TreacheryNeeded)
             => \A f \in Faction : players[f].treachery_cards # <<>>)

\* Setup:DealTreachery has panicked on a deck one card short, the
\* Harkonnen player's second card or a later player's card missing
C24_Witness ==
    /\ pc = "panicked"
    /\ state = Setup("DealTreachery")
    /\ resources.treachery_deck = <<>>
    /\ data.treachery_cards = TreacheryNeeded - 1

\* the sub-phases whose branch passes the turn to the next player
PassingPhases == {Setup("AtStart"), Storm("WeatherControl"), Storm("FamilyAtomics")}

\* C25: active_player is always an index of play_order (0 .. len - 1);
\* a run of handle_phase with an empty stack in Setup:AtStart,
\* Storm:WeatherControl or Storm:FamilyAtomics sets it to
\* (active_player + 1) mod len, and every other step leaves it, and
\* play_order, as they are.
C25_ActivePlayerValid ==
    /\ [](info.active_player \in 0..(Len(info.play_order) - 1))
    /\ [][/\ info'.active_player =
                IF /\ pc = "handle_phase"
                   /\ ActionStack_is_empty(stack)
                   /\ state \in PassingPhases
                THEN (info.active_player + 1) % Len(info.play_order)
                ELSE info.active_player
          /\ info'.play_order = info.play_order]_vars

\* six Setup:AtStart steps have brought active_player round to 0 again
C25_Witness ==
    /\ state = Setup("AtStart")
    /\ at_start_steps = Len(info.play_order)
    /\ info.active_player = 0

\* C26: from the state main() and init set up, the phase is always
\* Setup:ChooseFactions or Setup:Prediction and the turn is 0; the first
\* run of handle_phase that finds the stack empty moves from ChooseFactions
\* to Prediction; and no step leaves Prediction.  No deck is ever dealt
\* from and no spice credited.
C26_StaysInPrediction ==
    /\ [](/\ state \in {Setup("ChooseFactions"), Setup("Prediction")}
          /\ info.turn = 0
          /\ at_start_steps = 0
          /\ resources = Resources_new(NumLeaders, NumTreachery, Ident(NumStormCards))
          /\ players = [f \in Faction |-> Player_new(f)])
    /\ [][/\ (pc = "handle_phase" /\ ActionStack_is_empty(stack)
               /\ state = Setup("ChooseFactions"))
             => state' = Setup("Prediction")
          /\ state' # state => state' = Setup("Prediction")
          /\ state = Setup("Prediction") => state' = Setup("Prediction")]_vars

\* after a camera motion run to its end and a MakePrediction popped, the
\* program is in Setup:Prediction with the next MakePrediction pushed
C26_Witness ==
    /\ pc = "handle_actions"
    /\ state = Setup("Prediction")
    /\ inputs = MaxInputs
    /\ \E dest \in CameraNode : camera = DestTransform(dest)
    /\ popped_last
    /\ stack = <<MakePrediction("BeneGesserit")>>

\* C27: a run of handle_actions leaves the phase, Info (turn,
\* active_player, play_order), the decks, the players (cards, total_spice),
\* the storm and the shields' visibility as they are; of the stack it
\* changes or removes the top element only; and with an empty stack it
\* leaves the stack empty and the camera where it is.
C27_StackStepFrame ==
    [][pc = "handle_actions"
        => /\ UNCHANGED <<state, info, resources, players, storm, visible, data>>
           /\ Len(stack') \in {Len(stack), Len(stack) - 1}
           /\ \A i \in 1..(Len(stack) - 1) : stack'[i] = stack[i]
           /\ stack = <<>> => (stack' = <<>> /\ camera' = camera)
           /\ camera' # camera => (stack # <<>> /\ Top(stack).type = "CameraMotion")]_vars

\* handle_actions has popped the PlayPrompt that Storm:WeatherControl
\* pushed, and the turn is still with the player the push passed it to
C27_Witness ==
    /\ pc = "input"
    /\ popped_last
    /\ stack = <<>>
    /\ state = Storm("WeatherControl")
    /\ info.active_player = 1

\* C28: a run of input leaves a non-empty stack as it is and puts at most
\* one action, a camera motion, on an empty one (a left click on a
\* collider and Escape in the same tick give the motion of the click), and
\* changes nothing else; and while a camera motion is on top of the stack a
\* run of handle_phase changes neither the phase nor anything else of the
\* game.
C28_InputOnlyWhenEmpty ==
    /\ [][/\ pc = "input"
             => /\ ~ActionStack_is_empty(stack) => stack' = stack
                /\ ActionStack_is_empty(stack)
                      => \/ stack' = <<>>
                         \/ Len(stack') = 1 /\ Fresh(stack'[1])
                /\ UNCHANGED <<state, info, resources, players, storm, camera, visible>>
          /\ (/\ pc = "handle_phase"
              /\ stack # <<>>
              /\ Top(stack).type = "CameraMotion")
             => UNCHANGED <<state, info, resources, players, storm, stack, visible>>]_vars
    /\ [](\A ev \in InputEvent :
            (ev.mouse \in ClickTarget /\ ev.escape)
               => InputPush(<<>>, ev) = <<Action_move_camera(ev.mouse, CameraTime)>>)

\* a camera motion that input pushed before the first run of handle_phase
\* has used up its time and is still on the stack: the program is still in
\* Setup:ChooseFactions
C28_Witness ==
    /\ pc = "handle_actions"
    /\ state = Setup("ChooseFactions")
    /\ Len(stack) = 1
    /\ stack[1].type = "CameraMotion"
    /\ stack[1].remaining_time <= 0

====
